---- MODULE Spec2Model ----
(***************************************************************************)
(* A model of mktree.py: TreePath.from_tree (the indentation parser and    *)
(* the root selection), TreePath.rebase / reparent, and TreePath.mktree /  *)
(* write_comment acting on a filesystem.                                   *)
(*                                                                         *)
(* Text (a spec line, a name, an annotation, a file's content) is a        *)
(* sequence of one-character strings.  A path is the sequence of its       *)
(* components, each a name; "." is the empty sequence and an absolute path *)
(* starts with the component Slash.  Names in the inputs are ordinary      *)
(* single components (no "/" inside, not "." or "..").  TreePath objects   *)
(* live in a heap (a sequence of records); a node is its index, so that    *)
(* sharing and in-place mutation are visible.                              *)
(***************************************************************************)
EXTENDS Integers, Sequences, FiniteSets, TLC

VARIABLES
    pc,           \* "parse" | "error" | "returned" | "called"
    lines,        \* from_tree: the list `lines`
    idx,          \* from_tree: position of the loop `for line in lines`
    heap,         \* every TreePath object created so far
    raw_roots,    \* from_tree: raw_roots (node ids)
    stack,        \* from_tree: stack (node ids)
    root_path,    \* from_tree argument, as passed
    parent_path,  \* from_tree argument, as passed
    result,       \* the node from_tree returned (0: none yet)
    copy,         \* the last rebase/reparent call on the returned tree
    trace,        \* history: one record per entry line the loop attached
    fs,           \* the filesystem: path -> [kind, content]
    outcomes      \* per mktree call made on the result: TRUE if it returned,
                  \* FALSE if it raised

vars == <<pc, lines, idx, heap, raw_roots, stack, root_path, parent_path,
          result, copy, trace, fs, outcomes>>

(* ------------------------------ bounds -------------------------------- *)

\* Longest tree text, in raw lines.
MaxLines == 3

\* Most mktree calls made on one tree.
MaxRuns == 2

(* ------------------------- str and list helpers ----------------------- *)

Min(a, b) == IF a < b THEN a ELSE b

IsSpace(c) == c \in {" ", "\t", "\n"}

Front(s) == SubSeq(s, 1, Len(s) - 1)

Last(s) == s[Len(s)]

\* Python s[:n] for n >= 0.
Slice(s, n) == SubSeq(s, 1, Min(n, Len(s)))

\* ' ' * n
Spaces(n) == [i \in 1..n |-> " "]

RECURSIVE lstrip(_)
\* str.lstrip(): drop leading whitespace.
lstrip(s) == IF s # <<>> /\ IsSpace(Head(s)) THEN lstrip(Tail(s)) ELSE s

RECURSIVE lstrip_sp(_)
\* str.lstrip(" "): drop leading blanks only.
lstrip_sp(s) == IF s # <<>> /\ Head(s) = " " THEN lstrip_sp(Tail(s)) ELSE s

RECURSIVE rstrip(_)
\* str.rstrip(): drop trailing whitespace.
rstrip(s) == IF s # <<>> /\ IsSpace(Last(s)) THEN rstrip(Front(s)) ELSE s

\* str.strip()
strip(s) == lstrip(rstrip(s))

\* str.startswith(prefix)
startswith(s, prefix) ==
    Len(s) >= Len(prefix) /\ SubSeq(s, 1, Len(prefix)) = prefix

\* str.endswith of one character
endswith(s, c) == s # <<>> /\ Last(s) = c

\* str.find(c), 1-based; 0 when absent.
find(s, c) ==
    IF \E i \in 1..Len(s) : s[i] = c
    THEN CHOOSE i \in 1..Len(s) : s[i] = c /\ \A j \in 1..(i - 1) : s[j] # c
    ELSE 0

\* str.rfind(c), 1-based; 0 when absent.
rfind(s, c) ==
    IF \E i \in 1..Len(s) : s[i] = c
    THEN CHOOSE i \in 1..Len(s) : s[i] = c /\ \A j \in (i + 1)..Len(s) : s[j] # c
    ELSE 0

\* from_tree's default indent_size.
indent_size == 2

RECURSIVE replace_tabs(_)
\* tree_text.replace("\t", " " * indent_size)
replace_tabs(s) ==
    IF s = <<>> THEN <<>>
    ELSE (IF Head(s) = "\t" THEN Spaces(indent_size) ELSE <<Head(s)>>)
         \o replace_tabs(Tail(s))

RECURSIVE splitlines(_)
\* str.splitlines()
splitlines(s) ==
    IF s = <<>> THEN <<>>
    ELSE LET k == find(s, "\n")
         IN IF k = 0 THEN <<s>>
            ELSE <<SubSeq(s, 1, k - 1)>> \o splitlines(SubSeq(s, k + 1, Len(s)))

RECURSIVE nonblank_rstripped(_)
\* [l.rstrip() for l in ls if l.strip()]
nonblank_rstripped(ls) ==
    IF ls = <<>> THEN <<>>
    ELSE (IF strip(Head(ls)) # <<>> THEN <<rstrip(Head(ls))>> ELSE <<>>)
         \o nonblank_rstripped(Tail(ls))

\* The list `lines` from_tree computes from tree_text.
Lines(tree_text) == nonblank_rstripped(splitlines(replace_tabs(tree_text)))

(* ------------------------------- paths -------------------------------- *)

\* The root anchor of an absolute path.
Slash == <<"/">>

\* The user's home directory.
Home == <<Slash, <<"h">>>>

\* An absent optional argument, and a given one.
None == [given |-> FALSE, path |-> <<>>]

Some(p) == [given |-> TRUE, path |-> p]

\* Path.expanduser(): a leading "~" component becomes the home directory.
expanduser(p) ==
    IF p # <<>> /\ p[1] = <<"~">> THEN Home \o Tail(p) ELSE p

\* Path.name: the final component ("" for "." and for the root).
name_of(p) == IF p = <<>> \/ p = <<Slash>> THEN <<>> ELSE Last(p)

\* Path.parent
parent_of(p) == IF p = <<>> \/ p = <<Slash>> THEN p ELSE Front(p)

\* parent / name: joining "" leaves the path as it is.
join(p, name) == IF name = <<>> THEN p ELSE Append(p, name)

\* Path.suffix: from the last "." of the name, unless it leads or ends it.
suffix(p) ==
    LET name == name_of(p)
        i == rfind(name, ".")
    IN IF 1 < i /\ i < Len(name) THEN SubSeq(name, i, Len(name)) ELSE <<>>

(* ------------------------------- nodes -------------------------------- *)

\* TreePath.__new__: a fresh object with the default fields.
TreePath(p) ==
    [path |-> p, children |-> <<>>, comment |-> <<>>, is_dir_spec |-> FALSE]

\* add_child: append to the node's own list.
add_child(h, n, child) ==
    [h EXCEPT ![n].children = Append(@, child)]

(* --------------------------- rebase / reparent ------------------------ *)

\* rebase: new_root = type(self)(new_root_path) with the flag and the
\* annotation copied and an empty child list of its own.
new_root_of(node, new_root_path) ==
    [TreePath(new_root_path) EXCEPT !.is_dir_spec = node.is_dir_spec,
                                    !.comment = node.comment]

RECURSIVE rebase(_, _, _)
RECURSIVE reparent(_, _, _)
RECURSIVE reparent_each(_, _, _)

RECURSIVE relabel(_, _, _)
RECURSIVE relabel_each(_, _, _)

relabel_each(h, cs, p) ==
    IF cs = <<>> THEN h
    ELSE relabel_each(relabel(h, Head(cs), join(p, name_of(h[Head(cs)].path))),
                      Tail(cs), p)

relabel(h, n, p) == relabel_each([h EXCEPT ![n].path = p], h[n].children, p)

\* A variant of `rebase` that renames the subtree in place and returns it.
rebase_in_place(h, n, new_root_path) ==
    [heap |-> relabel(h, n, new_root_path), node |-> n]

\* A variant of `reparent` that joins the node's whole path, not its name.
reparent_full_path(h, n, new_parent) ==
    rebase(h, n, h[new_parent].path \o h[n].path)

\* rebase's loop: for c in self.children: new_root.add_child(c.reparent(new_root))
\* over the children cs still to copy; returns the heap.
reparent_each(h, cs, new_root) ==
    IF cs = <<>> THEN h
    ELSE LET r == reparent(h, Head(cs), new_root)
         IN reparent_each(add_child(r.heap, new_root, r.node), Tail(cs), new_root)

\* self.rebase(new_root_path) for self = node n: the heap afterwards and the
\* node returned.
rebase(h, n, new_root_path) ==
    LET h1 == Append(h, new_root_of(h[n], new_root_path))
        new_root == Len(h1)
    IN [heap |-> reparent_each(h1, h[n].children, new_root), node |-> new_root]

\* self.reparent(new_parent) == self.rebase(new_parent / self.name)
reparent(h, n, new_parent) ==
    rebase(h, n, join(h[new_parent].path, name_of(h[n].path)))

(* ------------------------------ from_tree ----------------------------- *)

\* from_tree's normalisation of root_path / parent_path.
expanded(arg) == IF arg.given THEN Some(expanduser(arg.path)) ELSE None

\* leading = len(line) - len(line.lstrip(" "))
leading(line) == Len(line) - Len(lstrip_sp(line))

\* level = leading // indent_size
level_of(line) == leading(line) \div indent_size

\* name_part, before the first "#" of the content, right-stripped.
name_part_of(line) ==
    LET content == lstrip_sp(line)
        k == find(content, "#")
    IN rstrip(IF k = 0 THEN content ELSE SubSeq(content, 1, k - 1))

\* comment, after the first "#" of the content, stripped ("" without one).
comment_of(line) ==
    LET content == lstrip_sp(line)
        k == find(content, "#")
    IN IF k = 0 THEN <<>> ELSE strip(SubSeq(content, k + 1, Len(content)))

\* is_dir = name_part.endswith("/")
is_dir_of(line) == endswith(name_part_of(line), "/")

\* name = name_part[:-1] if is_dir else name_part
entry_name(line) ==
    IF is_dir_of(line) THEN Front(name_part_of(line)) ELSE name_part_of(line)

\* A variant of `truncated` that recovers from a line nested too deep by
\* padding the stack with the deepest open directory.
truncated_padded(stk, level) ==
    IF level = 0 \/ stk = <<>> \/ Len(stk) >= level
    THEN (IF level = 0 THEN stk ELSE Slice(stk, level))
    ELSE stk \o [i \in 1..(level - Len(stk)) |-> Last(stk)]

\* stack = stack[:level], done only for level > 0.
truncated(stk, level) == IF level = 0 THEN stk ELSE Slice(stk, level)

\* The stack after the push of a directory node at `level`:
\* append when level == len(stack), else stack[level] = node.
pushed(stk, level, node) ==
    IF level = Len(stk) THEN Append(stk, node)
    ELSE [stk EXCEPT ![level + 1] = node]

\* One iteration of `for line in lines`.
ParseLine ==
    /\ pc = "parse"
    /\ idx <= Len(lines)
    /\ LET line == lines[idx]
           level == level_of(line)
           stack1 == truncated(stack, level)
       IN IF name_part_of(line) = <<>>
          THEN \* continue
               /\ idx' = idx + 1
               /\ UNCHANGED <<pc, heap, raw_roots, stack, trace>>
          ELSE IF level > 0 /\ Len(stack1) < level
          THEN \* parent = stack[level - 1] raises IndexError
               /\ pc' = "error"
               /\ stack' = stack1
               /\ UNCHANGED <<idx, heap, raw_roots, trace>>
          ELSE LET parent == IF level = 0 THEN 0 ELSE stack1[level]
                   made == [TreePath(IF parent = 0
                                     THEN <<entry_name(line)>>
                                     ELSE join(heap[parent].path, entry_name(line)))
                               EXCEPT !.comment = comment_of(line),
                                      !.is_dir_spec = is_dir_of(line)]
                   h1 == Append(heap, made)
                   node == Len(h1)
               IN /\ heap' = IF parent = 0 THEN h1 ELSE add_child(h1, parent, node)
                  /\ raw_roots' = IF parent = 0 THEN Append(raw_roots, node)
                                  ELSE raw_roots
                  /\ stack' = IF is_dir_of(line) THEN pushed(stack1, level, node)
                              ELSE stack1
                  /\ trace' = Append(trace, [line |-> idx, level |-> level,
                                             node |-> node, parent |-> parent])
                  /\ idx' = idx + 1
                  /\ pc' = pc
    /\ UNCHANGED <<lines, root_path, parent_path, result, copy, fs, outcomes>>

\* A variant of `synthetic_dir` that forgets to set the directory flag.
synthetic_unflagged(p) == [TreePath(p) EXCEPT !.comment = <<>>]

\* A synthesized directory: cls(path) with is_dir_spec = True, comment = "".
synthetic_dir(p) ==
    [TreePath(p) EXCEPT !.is_dir_spec = TRUE, !.comment = <<>>]

\* A variant of `top_path` that prefers root_path to parent_path.
top_path_root_first(rp, pp) ==
    IF rp.given THEN rp.path
    ELSE IF pp.given THEN pp.path ELSE <<>>

\* The artificial top's path: parent_path if given, else root_path or ".".
top_path(rp, pp) ==
    IF pp.given THEN pp.path
    ELSE IF rp.given THEN rp.path ELSE <<>>

RECURSIVE reparent_all_reversed(_, _, _)
\* A variant of `reparent_all` that collects the copies in reverse order.
reparent_all_reversed(h, roots, top) ==
    IF roots = <<>> THEN [heap |-> h, nodes |-> <<>>]
    ELSE LET r == reparent(h, Head(roots), top)
             rest == reparent_all_reversed(r.heap, Tail(roots), top)
         IN [heap |-> rest.heap, nodes |-> rest.nodes \o <<r.node>>]

RECURSIVE reparent_all(_, _, _)
\* [r.reparent(top) for r in roots]: the heap afterwards and the copies.
reparent_all(h, roots, top) ==
    IF roots = <<>> THEN [heap |-> h, nodes |-> <<>>]
    ELSE LET r == reparent(h, Head(roots), top)
             rest == reparent_all(r.heap, Tail(roots), top)
         IN [heap |-> rest.heap, nodes |-> <<r.node>> \o rest.nodes]

\* from_tree after the loop: the core selection logic.
Assemble ==
    /\ pc = "parse"
    /\ idx > Len(lines)
    /\ LET rp == expanded(root_path)
           pp == expanded(parent_path)
       IN IF Len(raw_roots) = 1
          THEN LET base_root == raw_roots[1]
               IN IF pp.given
                  THEN LET h1 == Append(heap, synthetic_dir(pp.path))
                           parent == Len(h1)
                           r == reparent(h1, base_root, parent)
                       IN /\ heap' = [r.heap EXCEPT ![parent].children = <<r.node>>]
                          /\ result' = parent
                  ELSE IF rp.given
                  THEN LET r == rebase(heap, base_root, rp.path)
                       IN /\ heap' = r.heap
                          /\ result' = r.node
                  ELSE /\ heap' = heap
                       /\ result' = base_root
          ELSE LET h1 == Append(heap, synthetic_dir(top_path(rp, pp)))
                   top == Len(h1)
                   r == reparent_all(h1, raw_roots, top)
               IN /\ heap' = [r.heap EXCEPT ![top].children = r.nodes]
                  /\ result' = top
    /\ pc' = "returned"
    /\ UNCHANGED <<lines, idx, raw_roots, stack, root_path, parent_path, copy,
                   trace, fs, outcomes>>

(* --------------------- calls on the returned tree --------------------- *)

RECURSIVE reach(_, _)
\* The nodes of the subtree of n.
reach(h, n) ==
    {n} \cup UNION {reach(h, h[n].children[i]) : i \in 1..Len(h[n].children)}

\* Paths a caller rebases onto.
CallPaths == {<<>>, <<<<"r">>, <<"s">>>>}

\* node.rebase(p) called on a node of the returned tree.
CallRebase ==
    /\ pc = "returned"
    /\ \E n \in reach(heap, result), p \in CallPaths :
          LET r == rebase(heap, n, p)
          IN /\ heap' = r.heap
             /\ copy' = [op |-> "rebase", node |-> n, path |-> p, to |-> 0,
                         made |-> r.node]
    /\ pc' = "called"
    /\ UNCHANGED <<lines, idx, raw_roots, stack, root_path, parent_path, result,
                   trace, fs, outcomes>>

\* node.reparent(new_parent) called on two nodes of the returned tree.
CallReparent ==
    /\ pc = "returned"
    /\ \E n \in reach(heap, result), m \in reach(heap, result) :
          LET r == reparent(heap, n, m)
          IN /\ heap' = r.heap
             /\ copy' = [op |-> "reparent", node |-> n, path |-> <<>>, to |-> m,
                         made |-> r.node]
    /\ pc' = "called"
    /\ UNCHANGED <<lines, idx, raw_roots, stack, root_path, parent_path, result,
                   trace, fs, outcomes>>

(* ----------------------------- filesystem ---------------------------- *)

dir_entry == [kind |-> "dir", content |-> <<>>]

file_entry(s) == [kind |-> "file", content |-> s]

raised(f) == [fs |-> f, ok |-> FALSE]

returned(f) == [fs |-> f, ok |-> TRUE]

\* Path.exists(): an entry whose ancestor is a regular file does not exist.
exists(f, p) == p \in DOMAIN f

\* Path.is_dir()
is_dir(f, p) == exists(f, p) /\ f[p].kind = "dir"

\* Whether a proper ancestor of p is a regular file.
under_file(f, p) ==
    \E k \in 0..(Len(p) - 1) :
        exists(f, SubSeq(p, 1, k)) /\ f[SubSeq(p, 1, k)].kind = "file"

\* os.mkdir(p): what it raises, or "ok".
os_mkdir(f, p) ==
    IF exists(f, p) THEN "FileExistsError"
    ELSE IF under_file(f, p) THEN "NotADirectoryError"
    ELSE IF ~exists(f, parent_of(p)) THEN "FileNotFoundError"
    ELSE "ok"

RECURSIVE mkdir(_, _, _, _)
\* Path.mkdir(mode, parents, exist_ok)
mkdir(f, p, parents, exist_ok) ==
    LET e == os_mkdir(f, p)
    IN IF e = "ok" THEN returned((p :> dir_entry) @@ f)
       ELSE IF e = "FileNotFoundError"
       THEN IF ~parents \/ parent_of(p) = p THEN raised(f)
            ELSE LET up == mkdir(f, parent_of(p), TRUE, TRUE)
                 IN IF up.ok THEN mkdir(up.fs, p, FALSE, exist_ok) ELSE up
       ELSE IF ~exist_ok \/ ~is_dir(f, p) THEN raised(f) ELSE returned(f)

\* Path.touch() of a path that does not exist.
touch(f, p) ==
    IF is_dir(f, parent_of(p)) THEN returned((p :> file_entry(<<>>)) @@ f)
    ELSE raised(f)

\* Path.write_text(s)
write_text(f, p, s) == [f EXCEPT ![p] = file_entry(s)]

Q == "\""

\* f'"""{comment}"""\n'
py_header(comment) == <<Q, Q, Q>> \o comment \o <<Q, Q, Q, "\n">>

\* f'// {comment}\n'
js_header(comment) == <<"/", "/", " ">> \o comment \o <<"\n">>

\* A variant of `sh_header` without the blank after the marker.
sh_header_bare(comment) == <<"#">> \o comment \o <<"\n">>

\* f'# {comment}\n'
sh_header(comment) == <<"#", " ">> \o comment \o <<"\n">>

\* self.write_comment() for a node at path p with annotation comment.
write_comment(f, p, comment) ==
    LET t == IF exists(f, p) THEN returned(f) ELSE touch(f, p)
    IN IF ~t.ok THEN t
       ELSE IF t.fs[p].kind # "file" THEN raised(t.fs)   \* open("r") of a directory
       ELSE LET s == t.fs[p].content
                st == Slice(s, 4)
                sfx == suffix(p)
            IN IF sfx = <<".", "p", "y">> /\ ~startswith(st, <<Q, Q, Q>>)
               THEN returned(write_text(t.fs, p, py_header(comment) \o s))
               ELSE IF sfx \in {<<".", "j", "s">>, <<".", "t", "s">>}
                       /\ ~startswith(st, <<"/", "/">>)
               THEN returned(write_text(t.fs, p, js_header(comment) \o s))
               ELSE IF sfx = <<".", "m", "d">> /\ strip(st) = <<>>
               THEN returned(write_text(t.fs, p, comment))
               ELSE IF sfx = <<".", "s", "h">> /\ ~startswith(st, <<"#", " ">>)
               THEN returned(write_text(t.fs, p, sh_header(comment) \o s))
               ELSE t

RECURSIVE mktree(_, _, _, _, _)
RECURSIVE mktree_each(_, _, _, _)

\* mktree's loop: for child in self.children: child.mktree(mode, parents=False, ...)
mktree_each(h, f, cs, exist_ok) ==
    IF cs = <<>> THEN returned(f)
    ELSE LET m == mktree(h, f, Head(cs), FALSE, exist_ok)
         IN IF m.ok THEN mktree_each(h, m.fs, Tail(cs), exist_ok) ELSE m

\* self.mktree(mode, parents, exist_ok) for self = node n.
mktree(h, f, n, parents, exist_ok) ==
    LET p == h[n].path
    IN IF h[n].is_dir_spec
       THEN LET m == IF ~exists(f, p) THEN mkdir(f, p, parents, exist_ok)
                     ELSE returned(f)
            IN IF m.ok THEN mktree_each(h, m.fs, h[n].children, exist_ok) ELSE m
       ELSE LET m == IF ~exists(f, p) THEN mkdir(f, parent_of(p), parents, TRUE)
                     ELSE returned(f)
            IN IF m.ok THEN write_comment(m.fs, p, h[n].comment) ELSE m

\* A call of mktree on the tree from_tree returned.
Mktree ==
    /\ pc = "returned"
    /\ Len(outcomes) < MaxRuns
    /\ \E parents \in BOOLEAN, exist_ok \in BOOLEAN :
          LET m == mktree(heap, fs, result, parents, exist_ok)
          IN /\ fs' = m.fs
             /\ outcomes' = Append(outcomes, m.ok)
    /\ UNCHANGED <<pc, lines, idx, heap, raw_roots, stack, root_path,
                   parent_path, result, copy, trace>>

(* ------------------------------- inputs ------------------------------- *)

\* The raw lines tree texts are made of.
RawLines ==
    { <<"a", "/">>,                                       \* a/
      <<"\t", "b", ".", "p", "y", " ", "#", " ", "i">>,   \* <tab>b.py # i
      <<" ", " ", " ", "c", "/">>,                        \* 3 blanks, c/
      <<" ", " ", " ", " ", "d", ".", "m", "d", "#", "m">>, \* 4 blanks, d.md#m
      <<"x", ".", "s", "h", " ", " ">>,                   \* x.sh, trailing blanks
      <<" ", " ", " ", " ", "#", " ", "n">>,              \* 4 blanks, # n
      <<" ", "\t">> }                                     \* a blank line

RECURSIVE join_lines(_)
\* "\n".join(ls)
join_lines(ls) ==
    IF ls = <<>> THEN <<>>
    ELSE IF Len(ls) = 1 THEN ls[1]
    ELSE ls[1] \o <<"\n">> \o join_lines(Tail(ls))

\* Every tree text of at most MaxLines raw lines.
Texts ==
    {join_lines(ls) : ls \in UNION {[1..k -> RawLines] : k \in 0..MaxLines}}

RootArgs == {None, Some(<<<<"r">>>>), Some(<<<<"~">>, <<"r">>>>)}

ParentArgs == {None, Some(<<<<"out">>>>), Some(<<<<"~">>>>)}

\* A filesystem holding the current directory and the root only.
EmptyFS == (<<>> :> dir_entry) @@ (<<Slash>> :> dir_entry)

Init ==
    /\ pc = "parse"
    /\ lines \in {Lines(t) : t \in Texts}
    /\ idx = 1
    /\ heap = <<>>
    /\ raw_roots = <<>>
    /\ stack = <<>>
    /\ root_path \in RootArgs
    /\ parent_path \in ParentArgs
    /\ result = 0
    /\ copy = [op |-> "none", node |-> 0, path |-> <<>>, to |-> 0, made |-> 0]
    /\ trace = <<>>
    /\ fs = EmptyFS
    /\ outcomes = <<>>

\* The raw lines of the trees that are materialized.
RawLinesFS ==
    { <<"a", "/">>,                                       \* a/
      <<"\t", "b", ".", "p", "y", " ", "#", " ", "i">>,   \* <tab>b.py # i
      <<" ", " ", "d", ".", "m", "d", "#", "m">>,         \* 2 blanks, d.md#m
      <<" ", " ", "t", ".", "t", "s">>,                   \* 2 blanks, t.ts
      <<"x", ".", "s", "h">>,                             \* x.sh
      <<" ", " ", "c", "/">>,                             \* 2 blanks, c/
      <<".", "p", "y", " ", "#", "h">> }                  \* .py #h

TextsFS ==
    {join_lines(ls) : ls \in UNION {[1..k -> RawLinesFS] : k \in 0..MaxLines}}

A == <<"a">>

\* Filesystems found before the first mktree call.
Filesystems ==
    { EmptyFS,
      (<<A>> :> file_entry(<<>>)) @@ EmptyFS,
      (<<<<"x", ".", "s", "h">>>> :> dir_entry) @@ EmptyFS,
      (<<A>> :> dir_entry)
        @@ (<<A, <<"b", ".", "p", "y">>>> :> file_entry(<<"z", "\n">>))
        @@ (<<A, <<"d", ".", "m", "d">>>> :> file_entry(<<" ", " ", " ", " ", "z">>))
        @@ (<<A, <<"t", ".", "t", "s">>>> :> file_entry(<<"/", "z">>))
        @@ (<<<<"x", ".", "s", "h">>>> :> file_entry(<<"#", "!", "z">>))
        @@ (<<<<".", "p", "y">>>> :> file_entry(<<"z">>))
        @@ EmptyFS,
      (<<A>> :> dir_entry)
        @@ (<<A, <<"b", ".", "p", "y">>>> :> file_entry(<<Q, Q, Q, "z">>))
        @@ (<<A, <<"d", ".", "m", "d">>>> :> file_entry(<<" ", "\n">>))
        @@ (<<A, <<"t", ".", "t", "s">>>> :> file_entry(<<"/", "/", "z">>))
        @@ (<<<<"x", ".", "s", "h">>>> :> file_entry(<<"#", " ", "z">>))
        @@ EmptyFS,
      (<<A>> :> dir_entry)
        @@ (<<A, <<"d", ".", "m", "d">>>> :> file_entry(<<"z">>))
        @@ (<<A, <<"c">>>> :> file_entry(<<>>))
        @@ EmptyFS }

InitFS ==
    /\ pc = "parse"
    /\ lines \in {Lines(t) : t \in TextsFS}
    /\ idx = 1
    /\ heap = <<>>
    /\ raw_roots = <<>>
    /\ stack = <<>>
    /\ root_path \in {None, Some(<<<<"r">>>>)}
    /\ parent_path \in {None, Some(<<<<"out">>, <<"w">>>>)}
    /\ result = 0
    /\ copy = [op |-> "none", node |-> 0, path |-> <<>>, to |-> 0, made |-> 0]
    /\ trace = <<>>
    /\ fs \in Filesystems
    /\ outcomes = <<>>

NextFS == ParseLine \/ Assemble \/ Mktree

SpecFS == InitFS /\ [][NextFS]_vars

Next == ParseLine \/ Assemble \/ CallRebase \/ CallReparent

Spec == Init /\ [][Next]_vars

(* ------------------------------- claims ------------------------------- *)

from_tree_returned == pc \in {"returned", "called"}

RECURSIVE same_tree(_, _, _)
\* Nodes a and b have the same name, flag and annotation, and so do their
\* children, pairwise and in order, recursively.
same_tree(h, a, b) ==
    /\ name_of(h[a].path) = name_of(h[b].path)
    /\ h[a].is_dir_spec = h[b].is_dir_spec
    /\ h[a].comment = h[b].comment
    /\ Len(h[a].children) = Len(h[b].children)
    /\ \A i \in 1..Len(h[a].children) :
          same_tree(h, h[a].children[i], h[b].children[i])

RECURSIVE is_copy(_, _, _, _)
\* Node c is node o re-rooted at path p: same flag and annotation, as many
\* children, and the i-th child of c is the i-th child of o re-rooted at
\* p / (that child's name).
is_copy(h, o, c, p) ==
    /\ h[c].path = p
    /\ h[c].is_dir_spec = h[o].is_dir_spec
    /\ h[c].comment = h[o].comment
    /\ Len(h[c].children) = Len(h[o].children)
    /\ \A i \in 1..Len(h[o].children) :
          is_copy(h, h[o].children[i], h[c].children[i],
                  join(p, name_of(h[h[o].children[i]].path)))

\* C1: when parsing succeeds, every node parsed at level L > 0 has as parent
\* a directory entry of level L - 1 that precedes it with no entry of a level
\* lower than L in between (so the parent is still open at that line).
C1_ParentStillOpen ==
    from_tree_returned =>
        \A i \in 1..Len(trace) :
            trace[i].level > 0 =>
                \E j \in 1..(i - 1) :
                    /\ trace[j].node = trace[i].parent
                    /\ heap[trace[j].node].is_dir_spec
                    /\ trace[j].level = trace[i].level - 1
                    /\ \A k \in (j + 1)..(i - 1) : trace[k].level >= trace[i].level

\* The loop is at an entry line of level L > 0 with fewer than L open
\* directories on the stack.
nested_too_deep ==
    /\ pc = "parse"
    /\ idx <= Len(lines)
    /\ name_part_of(lines[idx]) # <<>>
    /\ level_of(lines[idx]) > 0
    /\ Len(stack) < level_of(lines[idx])

\* C2: at an entry line of level L > 0 with fewer than L stack entries,
\* from_tree raises: the line creates no node, joins neither a child list nor
\* the roots, and no tree is ever returned.
C2_FailFast ==
    [][ nested_too_deep =>
            /\ pc' = "error"
            /\ result' = 0
            /\ heap' = heap
            /\ raw_roots' = raw_roots
            /\ trace' = trace ]_vars

C2_Witness ==
    /\ pc = "error"
    /\ heap # <<>>
    /\ Len(stack) < level_of(lines[idx])

\* The entry lines of level 0, in source order.
level0_entries(ls) ==
    SelectSeq(ls, LAMBDA l : name_part_of(l) # <<>> /\ level_of(l) = 0)

\* C3: with n >= 2 level-0 entries, from_tree returns a directory-flagged
\* node with exactly n children, the i-th having the name, flag and
\* annotation of the i-th level-0 entry and the subtree parsed for it.
C3_ManyRoots ==
    (from_tree_returned /\ Len(level0_entries(lines)) >= 2) =>
        LET es == level0_entries(lines)
            top == heap[result]
        IN /\ top.is_dir_spec
           /\ Len(top.children) = Len(es)
           /\ Len(raw_roots) = Len(es)
           /\ \A i \in 1..Len(es) :
                 /\ name_of(heap[top.children[i]].path) = entry_name(es[i])
                 /\ heap[top.children[i]].is_dir_spec = is_dir_of(es[i])
                 /\ heap[top.children[i]].comment = comment_of(es[i])
                 /\ same_tree(heap, raw_roots[i], top.children[i])

C3_Witness ==
    /\ pc = "returned"
    /\ Len(level0_entries(lines)) = 2
    /\ heap[raw_roots[1]].children # <<>>
    /\ heap[raw_roots[1]].path # heap[raw_roots[2]].path
    /\ root_path.given

\* C4: with parentPath given and at least one root, from_tree returns a
\* directory-flagged node at parentPath (home-expanded) with empty
\* annotation whose children are the roots, in order, each re-rooted at
\* parentPath / name; rootPath plays no part.
C4_ParentWins ==
    (from_tree_returned /\ parent_path.given /\ Len(raw_roots) >= 1) =>
        LET top == heap[result]
        IN /\ top.path = expanduser(parent_path.path)
           /\ top.is_dir_spec
           /\ top.comment = <<>>
           /\ Len(top.children) = Len(raw_roots)
           /\ \A i \in 1..Len(raw_roots) :
                 is_copy(heap, raw_roots[i], top.children[i],
                         join(expanduser(parent_path.path),
                              name_of(heap[raw_roots[i]].path)))

C4_Witness ==
    /\ pc = "returned"
    /\ parent_path.given
    /\ root_path.given
    /\ Len(raw_roots) = 1
    /\ heap[raw_roots[1]].children # <<>>

\* from_tree returned its only root as it is.
passthrough ==
    Len(raw_roots) = 1 /\ ~root_path.given /\ ~parent_path.given

\* C5 as stated: one node is returned, and it is directory-flagged except
\* when a single root passes through unchanged.
C5_FlaggedUnlessPassthrough ==
    from_tree_returned =>
        /\ result \in 1..Len(heap)
        /\ ~passthrough => heap[result].is_dir_spec

\* C5, amended: one node is returned; it is directory-flagged whenever
\* parentPath is given or the number of roots is not one; with one root and
\* no parentPath it carries that root's own flag (relabelled or not).
C5_FlaggedUnlessSingleRoot ==
    from_tree_returned =>
        /\ result \in 1..Len(heap)
        /\ IF Len(raw_roots) = 1 /\ ~parent_path.given
           THEN heap[result].is_dir_spec = heap[raw_roots[1]].is_dir_spec
           ELSE heap[result].is_dir_spec

C5_Witness ==
    /\ pc = "returned"
    /\ Len(raw_roots) = 1
    /\ root_path.given
    /\ ~parent_path.given
    /\ ~heap[result].is_dir_spec

\* C6: rebase(node, p) is node re-rooted at p (flag, annotation, number and
\* order of children kept at every depth, each child's path its copied
\* parent's path joined with its name), and reparent(node, q) is
\* rebase(node, q.path / node.name).
C6_RebaseKeepsStructure ==
    /\ (from_tree_returned /\ Len(raw_roots) = 1 /\ ~parent_path.given
            /\ root_path.given) =>
           is_copy(heap, raw_roots[1], result, expanduser(root_path.path))
    /\ (pc = "called" /\ copy.op = "rebase") =>
           is_copy(heap, copy.node, copy.made, copy.path)
    /\ (pc = "called" /\ copy.op = "reparent") =>
           is_copy(heap, copy.node, copy.made,
                   join(heap[copy.to].path, name_of(heap[copy.node].path)))

C6_Witness ==
    /\ pc = "called"
    /\ copy.op = "reparent"
    /\ \E i \in 1..Len(heap[copy.node].children) :
          heap[heap[copy.node].children[i]].children # <<>>
    /\ heap[copy.to].path # <<>>

\* C7: a step that calls rebase or reparent (from_tree's selection, or a
\* later call) leaves every existing node as it was, and the tree it returns
\* holds none of the nodes that existed before.
C7_InputUntouched ==
    [][ (pc' \in {"returned", "called"} /\ pc' # pc) =>
            /\ Len(heap') >= Len(heap)
            /\ \A i \in 1..Len(heap) : heap'[i] = heap[i]
            /\ pc' = "called" =>
                   reach(heap', copy'.made) \cap 1..Len(heap) = {}
            /\ (pc' = "returned" /\ ~passthrough) =>
                   reach(heap', result') \cap 1..Len(heap) = {} ]_vars

C7_Witness ==
    /\ pc = "called"
    /\ copy.op = "rebase"
    /\ heap[copy.node].children # <<>>
    /\ parent_path.given

\* C8: once a mktree call on the tree has returned, a further call returns
\* too and leaves every directory, file and file content as it was.
C8_Idempotent ==
    [][ (outcomes # <<>> /\ Last(outcomes) /\ Len(outcomes') = Len(outcomes) + 1) =>
            (Last(outcomes') /\ fs' = fs) ]_vars

C8_Witness ==
    /\ outcomes = <<TRUE, TRUE>>
    /\ \E n \in reach(heap, result) :
          /\ ~heap[n].is_dir_spec
          /\ exists(fs, heap[n].path)
          /\ fs[heap[n].path].content = py_header(heap[n].comment) \o <<"z", "\n">>
    /\ \E n \in reach(heap, result) :
          /\ ~heap[n].is_dir_spec
          /\ exists(fs, heap[n].path)
          /\ fs[heap[n].path].content = sh_header(heap[n].comment) \o <<"#", "!", "z">>

\* s2 is s with one line inserted in front.
one_line_inserted(s2, s) ==
    /\ Len(s2) > Len(s)
    /\ SubSeq(s2, Len(s2) - Len(s) + 1, Len(s2)) = s
    /\ find(s2, "\n") = Len(s2) - Len(s)

\* C9: a mktree call leaves every file that existed before it either
\* unchanged or with one line inserted before its whole previous content;
\* only a .md file that was empty or all whitespace may be overwritten.
C9_ContentPreserved ==
    [][ \A p \in DOMAIN fs :
            (fs[p].kind = "file" /\ Len(outcomes') = Len(outcomes) + 1) =>
                /\ p \in DOMAIN fs'
                /\ \/ fs'[p] = fs[p]
                   \/ /\ fs'[p].kind = "file"
                      /\ one_line_inserted(fs'[p].content, fs[p].content)
                   \/ /\ fs'[p].kind = "file"
                      /\ suffix(p) = <<".", "m", "d">>
                      /\ strip(fs[p].content) = <<>> ]_vars

\* C10: when mktree has returned, every directory-flagged node of the tree
\* is a directory on the filesystem and every other node a regular file.
C10_TypesMatch ==
    (outcomes # <<>> /\ Last(outcomes)) =>
        \A n \in reach(heap, result) :
            /\ exists(fs, heap[n].path)
            /\ fs[heap[n].path].kind = IF heap[n].is_dir_spec THEN "dir" ELSE "file"

====
